---- MODULE Spec2Model ----
(***************************************************************************)
(* Model of run.py: the job-listing pipeline                               *)
(*   main: config -> read_api -> transform_data -> save_to_csv ->          *)
(*         upload configuration -> upload_to_s3                            *)
(* Strings are TLA+ strings; pandas' missing value is the marker NaN.      *)
(***************************************************************************)
EXTENDS Integers, Sequences, FiniteSets, TLC

(* ------------------------------ bounds --------------------------------- *)
\* longest 'results' list the API returns in the model
MaxRecords == 2

(* ------------------------- program constants --------------------------- *)
\* df['publication_date'].str[:10]
DateLen == 10
\* file_name = 'jobs.csv'
FileName == "jobs.csv"
\* pandas' missing value (None / NaN) in an object column
NaN == "<NaN>"

(* --------------------------- string helpers ---------------------------- *)
Min(a, b) == IF a < b THEN a ELSE b

\* s[:n] of a Python / pandas string
Slice(s, n) == SubSeq(s, 1, Min(n, Len(s)))

\* index of the first occurrence of the one-character string ch in s, 0 if none
IndexOf(s, ch) ==
    LET hits == {i \in 1..Len(s) : SubSeq(s, i, i) = ch}
    IN IF hits = {} THEN 0 ELSE CHOOSE i \in hits : \A j \in hits : i <= j

\* Python's s.split(sep) for a one-character sep: splits at EVERY occurrence
RECURSIVE StrSplit(_, _)
StrSplit(s, sep) ==
    LET i == IndexOf(s, sep)
    IN IF i = 0 THEN <<s>>
       ELSE <<SubSeq(s, 1, i - 1)>> \o StrSplit(SubSeq(s, i + 1, Len(s)), sep)

\* sep.join(parts)
RECURSIVE StrJoin(_, _)
StrJoin(parts, sep) ==
    IF Len(parts) = 0 THEN ""
    ELSE IF Len(parts) = 1 THEN parts[1]
    ELSE parts[1] \o sep \o StrJoin(Tail(parts), sep)

Range(f) == {f[i] : i \in DOMAIN f}

SeqMax(ns) == IF Len(ns) = 0 THEN 0
              ELSE CHOOSE m \in Range(ns) : \A k \in Range(ns) : k <= m

(* ----------------------------- exceptions ------------------------------ *)
\* an exception object: its class, the HTTP status of err.response (0 when
\* err.response is None) and whether err.response is set
Exc(type, hasResponse, status) ==
    [type |-> type, hasResponse |-> hasResponse, status |-> status]
NoExc == Exc("none", FALSE, 0)

\* subclasses of requests.exceptions.RequestException
RequestExceptionTypes ==
    {"HTTPError", "ConnectionError", "Timeout", "RequestsJSONDecodeError"}
IsRequestException(e) == e.type \in RequestExceptionTypes

\* the result of a call: a return value or a raised exception, with the
\* diagnostics the callee printed to stderr
Return(v, out) == [ok |-> TRUE, value |-> v, exc |-> NoExc, log |-> out]
Raise(e, out) == [ok |-> FALSE, value |-> <<>>, exc |-> e, log |-> out]
Diag(who, e) == [stage |-> who, exc |-> e]

(* ------------------------------ read_api ------------------------------- *)
\* variant: only server errors raise
RaisesForStatusServerOnly(status) == 500 <= status /\ status < 600

\* response.raise_for_status(): HTTPError for 4xx and 5xx, carrying the response
RaisesForStatus(status) == 400 <= status /\ status < 600

\* response.json() on a body that is not JSON: requests >= 2.27 raises its own
\* JSONDecodeError (a RequestException built without a response), older
\* releases let the json module's ValueError through
JsonDecodeExc(newRequests) ==
    IF newRequests THEN Exc("RequestsJSONDecodeError", FALSE, 0)
    ELSE Exc("ValueError", FALSE, 0)

\* the try block of read_api: requests.get, raise_for_status, response.json
ReadApiTry(got, newRequests) ==
    IF got.kind = "raise" THEN Raise(got.exc, <<>>)
    ELSE IF RaisesForStatus(got.status)
         THEN Raise(Exc("HTTPError", TRUE, got.status), <<>>)
    ELSE IF ~got.bodyIsJson THEN Raise(JsonDecodeExc(newRequests), <<>>)
    ELSE Return(got.json, <<>>)

\* the except clause of read_api: the diagnostic reads
\* err.response.status_code, which raises AttributeError when err.response is
\* None, before anything is printed; otherwise it prints and re-raises err
ReadApiExcept(err) ==
    IF err.hasResponse THEN Raise(err, <<Diag("read_api", err)>>)
    ELSE Raise(Exc("AttributeError", FALSE, 0), <<>>)

read_api(got, newRequests) ==
    LET r == ReadApiTry(got, newRequests)
    IN IF ~r.ok /\ IsRequestException(r.exc) THEN ReadApiExcept(r.exc) ELSE r

(* --------------------------- transform_data ---------------------------- *)
KeyError == Exc("KeyError", FALSE, 0)
IndexError == Exc("IndexError", FALSE, 0)
ValueError == Exc("ValueError", FALSE, 0)

\* result['company']['name']
CompanyExc(r) ==
    IF "company" \notin DOMAIN r THEN KeyError
    ELSE IF "name" \notin DOMAIN r.company THEN KeyError ELSE NoExc
\* result['locations'][0]['name']
LocationExc(r) ==
    IF "locations" \notin DOMAIN r THEN KeyError
    ELSE IF Len(r.locations) = 0 THEN IndexError
    ELSE IF "name" \notin DOMAIN r.locations[1] THEN KeyError ELSE NoExc
\* result['name'], result['type'], result['publication_date']
NameExc(r) == IF "name" \notin DOMAIN r THEN KeyError ELSE NoExc
TypeExc(r) == IF "type" \notin DOMAIN r THEN KeyError ELSE NoExc
DateExc(r) == IF "publication_date" \notin DOMAIN r THEN KeyError ELSE NoExc

\* the first exception of a sequence of outcomes, NoExc if none raised
FirstExc(es) ==
    LET bad == {i \in 1..Len(es) : es[i] /= NoExc}
    IN IF bad = {} THEN NoExc
       ELSE es[CHOOSE i \in bad : \A j \in bad : i <= j]

\* the five comprehensions run one after the other over data['results'],
\* each stopping at its first failing result
ExtractExc(data) ==
    IF "results" \notin DOMAIN data THEN KeyError
    ELSE LET rs == data.results
             n == Len(rs)
         IN FirstExc(<< FirstExc([i \in 1..n |-> CompanyExc(rs[i])]),
                        FirstExc([i \in 1..n |-> LocationExc(rs[i])]),
                        FirstExc([i \in 1..n |-> NameExc(rs[i])]),
                        FirstExc([i \in 1..n |-> TypeExc(rs[i])]),
                        FirstExc([i \in 1..n |-> DateExc(rs[i])]) >>)

\* a dict is the sequence of its items in insertion order
Item(k, v) == [key |-> k, value |-> v]
DictKeys(d) == [i \in 1..Len(d) |-> d[i].key]
DictGet(d, k) == d[CHOOSE i \in 1..Len(d) : d[i].key = k].value

\* ChainMap.__iter__: d = {}; for mapping in reversed(self.maps):
\* d.update(dict.fromkeys(mapping)); the keys of the LAST map come first
RECURSIVE ChainMapIter(_)
ChainMapIter(maps) ==
    IF Len(maps) = 0 THEN <<>>
    ELSE LET later == ChainMapIter(Tail(maps))
         IN later \o SelectSeq(DictKeys(Head(maps)), LAMBDA k : k \notin Range(later))

\* ChainMap.__getitem__: the first map that has the key
ChainMapGet(maps, k) ==
    LET has == {i \in 1..Len(maps) : k \in Range(DictKeys(maps[i]))}
    IN DictGet(maps[CHOOSE i \in has : \A j \in has : i <= j], k)

\* dict(ChainMap(*maps))
DictOfChainMap(maps) ==
    LET ks == ChainMapIter(maps)
    IN [i \in 1..Len(ks) |-> Item(ks[i], ChainMapGet(maps, ks[i]))]

\* a DataFrame: its column labels in order and its rows, each a mapping from
\* column label to cell
\* pd.DataFrame.from_dict(d): one column per key, in the dict's order
DataFrameFromDict(d) ==
    LET ks == DictKeys(d)
        n == IF Len(d) = 0 THEN 0 ELSE Len(d[1].value)
    IN [columns |-> ks,
        rows |-> [i \in 1..n |-> [c \in Range(ks) |-> DictGet(d, c)[i]]]]

Column(df, c) == [i \in 1..Len(df.rows) |-> df.rows[i][c]]

\* df[c] = values: replaces the column in place or appends a new one
SetColumn(df, c, values) ==
    [columns |-> IF c \in Range(df.columns) THEN df.columns
                 ELSE Append(df.columns, c),
     rows |-> [i \in 1..Len(df.rows) |->
                 [k \in Range(df.columns) \cup {c} |->
                     IF k = c THEN values[i] ELSE df.rows[i][k]]]]

\* df.drop(c, axis=1, inplace=True)
DropColumn(df, c) ==
    [columns |-> SelectSeq(df.columns, LAMBDA k : k /= c),
     rows |-> [i \in 1..Len(df.rows) |->
                 [k \in Range(df.columns) \ {c} |-> df.rows[i][k]]]]

\* variant: the column is left as it is
StrSliceNoTruncate(values) == values

\* Series.str[:DateLen]
StrSlice(values) == [i \in 1..Len(values) |-> Slice(values[i], DateLen)]

\* Series.str.split(',', expand=True): a frame with as many columns as the
\* longest split has parts (none for an empty Series), shorter rows padded
\* with the missing value
StrSplitExpand(values, sep) ==
    LET parts == [i \in 1..Len(values) |-> StrSplit(values[i], sep)]
        width == SeqMax([i \in 1..Len(values) |-> Len(parts[i])])
    IN [width |-> width,
        rows |-> [i \in 1..Len(values) |->
                    [j \in 1..width |->
                        IF j <= Len(parts[i]) THEN parts[i][j] ELSE NaN]]]

\* df[keys] = frame: "Columns must be same length as key" unless the frame
\* has exactly one column per key; then column j goes to keys[j]
RECURSIVE AssignColumns(_, _, _, _)
AssignColumns(df, keys, frame, j) ==
    IF j > Len(keys) THEN df
    ELSE AssignColumns(
             SetColumn(df, keys[j],
                       [i \in 1..Len(frame.rows) |-> frame.rows[i][j]]),
             keys, frame, j + 1)

SetColumnsExc(keys, frame) ==
    IF frame.width /= Len(keys) THEN ValueError ELSE NoExc

\* the dict built at lines 58-64
BuildDict(rs) ==
    LET n == Len(rs)
    IN DictOfChainMap(<<
         <<Item("company", [i \in 1..n |-> rs[i].company.name])>>,
         <<Item("locations", [i \in 1..n |-> rs[i].locations[1].name])>>,
         <<Item("job", [i \in 1..n |-> rs[i].name])>>,
         <<Item("job_type", [i \in 1..n |-> rs[i].type])>>,
         <<Item("publication_date", [i \in 1..n |-> rs[i].publication_date])>> >>)

\* the try block of transform_data
TransformTry(data) ==
    IF ExtractExc(data) /= NoExc THEN Raise(ExtractExc(data), <<>>)
    ELSE LET df0 == DataFrameFromDict(BuildDict(data.results))
             df1 == SetColumn(df0, "publication_date",
                              StrSlice(Column(df0, "publication_date")))
             frame == StrSplitExpand(Column(df1, "locations"), ",")
             keys == <<"city", "country">>
         IN IF SetColumnsExc(keys, frame) /= NoExc
            THEN Raise(SetColumnsExc(keys, frame), <<>>)
            ELSE Return(DropColumn(AssignColumns(df1, keys, frame, 1),
                                   "locations"), <<>>)

\* except Exception: print the diagnostic and re-raise
transform_data(data) ==
    LET r == TransformTry(data)
    IN IF r.ok THEN r ELSE Raise(r.exc, <<Diag("transform_data", r.exc)>>)

(* ----------------------------- save_to_csv ----------------------------- *)
Contains(s, ch) == IndexOf(s, ch) /= 0

\* one field of a CSV line: the missing value is written as the empty
\* string, a field holding the delimiter or a quote is quoted, quotes doubled
CsvField(v) ==
    IF v = NaN THEN ""
    ELSE IF Contains(v, ",") \/ Contains(v, "\"")
         THEN "\"" \o StrJoin(StrSplit(v, "\""), "\"\"") \o "\""
    ELSE v

\* df.to_csv(file_name, index=False): the header line, the column labels in
\* the frame's order, then one line per row in that order
to_csv(df) ==
    <<StrJoin(df.columns, ",")>> \o
    [i \in 1..Len(df.rows) |->
        StrJoin([j \in 1..Len(df.columns) |-> CsvField(df.rows[i][df.columns[j]])],
                ",")]

\* a file of the working directory: absent, or present with its lines
NoFile == [exists |-> FALSE, lines |-> <<>>]
File(lines) == [exists |-> TRUE, lines |-> lines]

\* save_to_csv: io is "ok" or the class of the error the write raises;
\* the value returned here is the file as it is on disk afterwards
save_to_csv(df, io) ==
    IF io = "ok" THEN Return(File(to_csv(df)), <<>>)
    ELSE Raise(Exc(io, FALSE, 0), <<Diag("save_to_csv", Exc(io, FALSE, 0))>>)

(* ----------------------------- upload_to_s3 ---------------------------- *)
\* s3.upload_file(file_name, bucket, folder + file_name): the object stored,
\* or the error boto3 raises, which is printed and re-raised
upload_to_s3(file, file_name, bucket, folder, s3io) ==
    IF s3io = "ok"
    THEN Return([bucket |-> bucket, key |-> folder \o file_name,
                 body |-> file.lines], <<>>)
    ELSE Raise(Exc(s3io, FALSE, 0), <<Diag("upload_to_s3", Exc(s3io, FALSE, 0))>>)

(* -------------------------------- main --------------------------------- *)
\* config.toml: absent, or a table; a table is a mapping from the dotted
\* path of a key ("api.url") to its value, MISSING keys left out
\* toml.load('config.toml')
TomlLoad(file) ==
    IF ~file.exists THEN Raise(Exc("FileNotFoundError", FALSE, 0), <<>>)
    ELSE Return(file.table, <<>>)

\* app_config[section][key] for each path of keys, in order: KeyError at the
\* first one that is missing
Lookup(table, keys) ==
    LET bad == {i \in 1..Len(keys) : keys[i] \notin DOMAIN table}
    IN IF bad = {} THEN Return([i \in 1..Len(keys) |-> table[keys[i]]], <<>>)
       ELSE Raise(KeyError, <<>>)

\* variant: all configuration is read up front
StartConfigKeysEager == <<"api.url", "aws.bucket", "aws.folder">>

\* the keys main reads before the first stage (line 133) and the keys it
\* reads between save_to_csv and upload_to_s3 (lines 150-151)
StartConfigKeys == <<"api.url">>
UploadConfigKeys == <<"aws.bucket", "aws.folder">>

\* the four stages in the order main calls them
StageOrder == <<"read_api", "transform_data", "save_to_csv", "upload_to_s3">>

\* the steps of main's try block, and where control goes after a step: to
\* the next step when it returned, out of the try block when it raised
Steps == <<"config", "read_api", "transform_data", "save_to_csv",
           "upload_config", "upload_to_s3">>
AfterStepContinue(step, ok) ==
    IF step = "upload_to_s3" THEN "exited"
    ELSE Steps[1 + CHOOSE i \in 1..Len(Steps) : Steps[i] = step]
AfterStep(step, ok) ==
    IF ~ok \/ step = "upload_to_s3" THEN "exited"
    ELSE Steps[1 + CHOOSE i \in 1..Len(Steps) : Steps[i] = step]

\* variant: the exception is swallowed
ExitCodeSwallow(ok) == 0

\* the exit status of the process: main's except clause re-raises, and an
\* uncaught exception makes the interpreter exit with status 1
ExitCode(ok) == IF ok THEN 0 ELSE 1
Running == -1

VARIABLES
    pc,         \* the step of main that runs next, "exited" after the process ended
    configFile, \* config.toml
    app_config, \* main's app_config
    response,   \* what requests.get produced in read_api
    data,       \* main's data
    df,         \* main's df
    disk,       \* jobs.csv in the working directory
    s3,         \* the objects uploaded to the bucket
    stderr,     \* the diagnostics printed to stderr, in order
    exc,        \* the exception that left main, NoExc if none
    exitCode,   \* the process's exit status, Running until it exits
    calls,      \* the stages started, in order
    completed,  \* the stages that returned, in order
    failedAt,   \* the step that raised, "none" if none
    cause       \* the exception raised inside that step's try block

vars == <<pc, configFile, app_config, response, data, df, disk, s3, stderr,
          exc, exitCode, calls, completed, failedAt, cause>>

(* ---------------------------- the environment --------------------------- *)
ConfigKeys == {"api.url", "aws.bucket", "aws.folder"}
ConfigValue(k) ==
    IF k = "api.url" THEN "https://api.example/jobs"
    ELSE IF k = "aws.bucket" THEN "my-bucket" ELSE "jobs/"
ConfigFiles ==
    {[exists |-> FALSE, table |-> <<>>]} \cup
    {[exists |-> TRUE, table |-> [k \in S |-> ConfigValue(k)]] : S \in SUBSET ConfigKeys}

Record(company, location, job, type, date) ==
    [company |-> [name |-> company], locations |-> <<[name |-> location]>>,
     name |-> job, type |-> type, publication_date |-> date]

\* sample results of the API
RecNYC == Record("Acme", "NYC, USA", "Engineer", "full_time", "2023-05-01T00:00:00")
RecBerlin == Record("Beta", "Berlin, Germany", "Analyst", "contract", "2023-05")
RecRemote == Record("Acme", "Remote", "Designer", "full_time", "2023-06-02T10:00:00Z")
RecParis == Record("Gamma", "Paris, Ile, France", "Chef", "part_time", "2023-07-03")
RecNoLocation ==
    [company |-> [name |-> "Acme"], locations |-> <<>>, name |-> "Clerk",
     type |-> "full_time", publication_date |-> "2023-05-01T00:00:00"]
RecNoType ==
    [company |-> [name |-> "Acme"], locations |-> <<[name |-> "Oslo, Norway"]>>,
     name |-> "Clerk", publication_date |-> "2023-05-01T00:00:00"]
SampleRecords == {RecNYC, RecBerlin, RecRemote, RecParis, RecNoLocation, RecNoType}

ResultLists == UNION {[1..n -> SampleRecords] : n \in 0..MaxRecords}
JsonBodies == {[results |-> rs] : rs \in ResultLists} \cup {[error |-> "not found"]}

Statuses == {200, 300, 404, 500}
NetworkErrors == {"ConnectionError", "Timeout"}
GetOutcomes ==
    {[kind |-> "raise", exc |-> Exc(t, FALSE, 0)] : t \in NetworkErrors} \cup
    {[kind |-> "response", status |-> st, bodyIsJson |-> TRUE, json |-> j] :
        st \in Statuses, j \in JsonBodies} \cup
    {[kind |-> "response", status |-> st, bodyIsJson |-> FALSE, json |-> <<>>] :
        st \in Statuses}
NoResponse == [kind |-> "none"]

WriteOutcomes == {"ok", "PermissionError"}
UploadOutcomes == {"ok", "ClientError", "S3UploadFailedError"}
StaleFile == File(<<"stale">>)

(* ------------------------------ the run -------------------------------- *)
Init ==
    /\ pc = "config"
    /\ configFile \in ConfigFiles
    /\ disk \in {NoFile, StaleFile}
    /\ app_config = <<>>
    /\ response = NoResponse
    /\ data = <<>>
    /\ df = <<>>
    /\ s3 = <<>>
    /\ stderr = <<>>
    /\ exc = NoExc
    /\ exitCode = Running
    /\ calls = <<>>
    /\ completed = <<>>
    /\ failedAt = "none"
    /\ cause = NoExc

\* what every step of main does with the result r of its call: go on, or
\* run main's except clause (print the diagnostic, re-raise) and exit
Proceed(step, r, tried) ==
    /\ pc' = AfterStep(step, r.ok)
    /\ stderr' = IF r.ok THEN stderr \o r.log
                 ELSE stderr \o r.log \o <<Diag("main", r.exc)>>
    /\ exc' = r.exc
    /\ exitCode' = IF AfterStep(step, r.ok) = "exited" THEN ExitCode(r.ok) ELSE Running
    /\ failedAt' = IF r.ok THEN "none" ELSE step
    /\ cause' = IF r.ok THEN NoExc ELSE tried.exc
    /\ calls' = IF step \in Range(StageOrder) THEN Append(calls, step) ELSE calls
    /\ completed' = IF step \in Range(StageOrder) /\ r.ok
                    THEN Append(completed, step) ELSE completed

\* lines 132-133
LoadConfig ==
    /\ pc = "config"
    /\ LET t == TomlLoad(configFile)
           r == IF t.ok THEN Lookup(t.value, StartConfigKeys) ELSE t
       IN /\ app_config' = IF t.ok THEN t.value ELSE app_config
          /\ Proceed("config", r, r)
    /\ UNCHANGED <<configFile, response, data, df, disk, s3>>

\* line 136
ReadApi ==
    /\ pc = "read_api"
    /\ \E got \in GetOutcomes, newRequests \in BOOLEAN :
          LET r == read_api(got, newRequests)
          IN /\ response' = got
             /\ data' = IF r.ok THEN r.value ELSE data
             /\ Proceed("read_api", r, ReadApiTry(got, newRequests))
    /\ UNCHANGED <<configFile, app_config, df, disk, s3>>

\* line 140
TransformData ==
    /\ pc = "transform_data"
    /\ LET r == transform_data(data)
       IN /\ df' = IF r.ok THEN r.value ELSE df
          /\ Proceed("transform_data", r, TransformTry(data))
    /\ UNCHANGED <<configFile, app_config, response, data, disk, s3>>

\* lines 142-144
SaveToCsv ==
    /\ pc = "save_to_csv"
    /\ \E io \in WriteOutcomes :
          LET r == save_to_csv(df, io)
          IN /\ disk' = IF r.ok THEN r.value ELSE disk
             /\ Proceed("save_to_csv", r, r)
    /\ UNCHANGED <<configFile, app_config, response, data, df, s3>>

\* lines 147-151
ReadUploadConfig ==
    /\ pc = "upload_config"
    /\ LET r == Lookup(app_config, UploadConfigKeys)
       IN Proceed("upload_config", r, r)
    /\ UNCHANGED <<configFile, app_config, response, data, df, disk, s3>>

\* lines 153-154
UploadToS3 ==
    /\ pc = "upload_to_s3"
    /\ \E s3io \in UploadOutcomes :
          LET r == upload_to_s3(disk, FileName, app_config["aws.bucket"],
                                app_config["aws.folder"], s3io)
          IN /\ s3' = IF r.ok THEN Append(s3, r.value) ELSE s3
             /\ Proceed("upload_to_s3", r, r)
    /\ UNCHANGED <<configFile, app_config, response, data, df, disk>>

Next ==
    \/ LoadConfig
    \/ ReadApi
    \/ TransformData
    \/ SaveToCsv
    \/ ReadUploadConfig
    \/ UploadToS3

Spec == Init /\ [][Next]_vars

(* ============================ properties =============================== *)
IsPrefix(a, b) == Len(a) <= Len(b) /\ SubSeq(b, 1, Len(a)) = a
Started(stage) == stage \in Range(calls)
Completed(stage) == stage \in Range(completed)
InitialDisks == {NoFile, StaleFile}
SixColumns == <<"company", "job", "job_type", "publication_date", "city", "country">>

\* C1: the stages start in the fixed order read_api, transform_data,
\* save_to_csv, upload_to_s3, each at most once; a stage starts only after
\* every earlier one returned; a stage that raised is the last one started,
\* the run has ended, and what earlier stages did is still there (the file
\* save_to_csv wrote is on disk, nothing was uploaded).
StagesRunForwardOnly ==
    /\ IsPrefix(calls, StageOrder)
    /\ IsPrefix(completed, calls)
    /\ Len(calls) <= Len(completed) + 1
    /\ (Len(calls) = Len(completed) + 1
          => pc = "exited" /\ failedAt = calls[Len(calls)])
    /\ (failedAt /= "none" => pc = "exited" /\ exitCode = 1)
    /\ (Completed("save_to_csv") => disk = File(to_csv(df)))
    /\ (~Completed("save_to_csv") => disk \in InitialDisks)
    /\ (Completed("upload_to_s3") <=> s3 /= <<>>)
    /\ Len(s3) <= 1

\* a stage failed after earlier stages had completed
SaveFailedAfterTwoStages ==
    /\ failedAt = "save_to_csv"
    /\ completed = <<"read_api", "transform_data">>
    /\ pc = "exited"

\* C2: a stage whose operation fails prints one diagnostic and the failure
\* that leaves it, and main, is the very failure that occurred; a non-2xx
\* status leaves as the HTTP error with that status, a network failure of
\* the GET leaves as that network error.
FailuresPropagateUnchanged ==
    /\ (failedAt \in Range(StageOrder)
          => /\ exc = cause
             /\ stderr = <<Diag(failedAt, cause), Diag("main", cause)>>)
    /\ (response.kind = "raise"
          => failedAt = "read_api" /\ exc = response.exc)
    /\ (response.kind = "response" /\ ~(200 <= response.status /\ response.status < 300)
          => failedAt = "read_api" /\ exc = Exc("HTTPError", TRUE, response.status))

\* C3: after a 404 response only read_api was ever called, jobs.csv was not
\* written, and the process has ended with the HTTP error.
NotFoundAbortsBeforeTransform ==
    (response.kind = "response" /\ response.status = 404)
      => /\ calls = <<"read_api">>
         /\ completed = <<>>
         /\ disk \in InitialDisks
         /\ s3 = <<>>
         /\ pc = "exited"
         /\ exitCode = 1
         /\ exc = Exc("HTTPError", TRUE, 404)

\* a 404 that came with a JSON body
NotFoundWithJsonBody ==
    /\ response.kind = "response" /\ response.status = 404
    /\ response.bodyIsJson
    /\ pc = "exited"

\* C4: when save_to_csv returned and upload_to_s3 raised, the exit status
\* is non-zero and jobs.csv is still the file save_to_csv wrote.
UploadFailureKeepsLocalFile ==
    failedAt = "upload_to_s3"
      => /\ exitCode = 1
         /\ Completed("save_to_csv")
         /\ disk = File(to_csv(df))
         /\ s3 = <<>>

\* the upload was refused after rows were written
UploadRefusedAfterSave ==
    /\ failedAt = "upload_to_s3"
    /\ exc.type = "ClientError"
    /\ Len(disk.lines) > 1

\* the keys a RawRecord must have, with at least one location
ValidRecord(r) ==
    /\ {"company", "locations", "name", "type", "publication_date"} \subseteq DOMAIN r
    /\ Len(r.locations) >= 1

ValidInput ==
    /\ "results" \in DOMAIN data
    /\ \A i \in 1..Len(data.results) : ValidRecord(data.results[i])

\* C5: for valid records with non-empty locations transform_data returns one
\* row per record, in the order of the input.
OneRowPerRecordInOrder ==
    (Started("transform_data") /\ ValidInput)
      => /\ Completed("transform_data")
         /\ Len(df.rows) = Len(data.results)
         /\ \A i \in 1..Len(df.rows) :
               /\ df.rows[i]["company"] = data.results[i].company.name
               /\ df.rows[i]["job"] = data.results[i].name
               /\ df.rows[i]["job_type"] = data.results[i].type

\* C6: the file save_to_csv writes starts with the header company, job,
\* job_type, publication_date, city, country and every data line lists the
\* row's fields in that order.
HeaderInSpecifiedOrder ==
    Completed("save_to_csv")
      => /\ disk.lines[1] = StrJoin(SixColumns, ",")
         /\ \A i \in 1..Len(df.rows) :
               disk.lines[i + 1] =
                   StrJoin([j \in 1..6 |-> CsvField(df.rows[i][SixColumns[j]])], ",")

\* the text before the first comma, and the text after it (missing if none)
BeforeFirstComma(s) ==
    IF IndexOf(s, ",") = 0 THEN s ELSE SubSeq(s, 1, IndexOf(s, ",") - 1)
AfterFirstComma(s) ==
    IF IndexOf(s, ",") = 0 THEN NaN ELSE SubSeq(s, IndexOf(s, ",") + 1, Len(s))

\* C7: for every record, city is the text of the first location's name
\* before its first comma and country all the text after it (missing when
\* there is no comma), and the transformation does not fail.
SplitsOnFirstCommaOnly ==
    (Started("transform_data") /\ ValidInput /\ data.results /= <<>>)
      => /\ Completed("transform_data")
         /\ \A i \in 1..Len(df.rows) :
               /\ df.rows[i]["city"] =
                      BeforeFirstComma(data.results[i].locations[1].name)
               /\ df.rows[i]["country"] =
                      AfterFirstComma(data.results[i].locations[1].name)

\* C8: with an empty 'results' list transform_data returns a table of zero
\* rows and the six columns, and the file then written is the header alone.
EmptyResultsGiveHeaderOnly ==
    (Started("transform_data") /\ "results" \in DOMAIN data /\ data.results = <<>>)
      => /\ Completed("transform_data")
         /\ df.rows = <<>>
         /\ Range(df.columns) = Range(SixColumns)
         /\ (Completed("save_to_csv") => Len(disk.lines) = 1)

\* C9: in the table transform_data returns, every publication_date has at
\* most DateLen characters and is a prefix of the record's date: its first
\* DateLen characters, or all of it when it is shorter.
DateIsPrefixOfAtMostTen ==
    Completed("transform_data")
      => \A i \in 1..Len(df.rows) :
            LET out == df.rows[i]["publication_date"]
                in == data.results[i].publication_date
            IN /\ Len(out) <= 10
               /\ IsPrefix(out, in)
               /\ (Len(in) >= 10 => Len(out) = 10)
               /\ (Len(in) < 10 => out = in)

\* a table built from one date longer and one shorter than ten characters
LongAndShortDatesTransformed ==
    /\ Completed("transform_data")
    /\ \E i, j \in 1..Len(data.results) :
          /\ Len(data.results[i].publication_date) > 10
          /\ Len(data.results[j].publication_date) < 10

\* config.toml has api.url but lacks aws.bucket or aws.folder
UploadConfigMissing ==
    /\ configFile.exists
    /\ "api.url" \in DOMAIN configFile.table
    /\ ~({"aws.bucket", "aws.folder"} \subseteq DOMAIN configFile.table)

\* C10: main reads aws.bucket and aws.folder only after save_to_csv
\* returned: with api.url configured and an upload key missing, the missing
\* key is not noticed at start, it is noticed only once fetch, transform and
\* persist have completed and jobs.csv is written, upload_to_s3 is never
\* called, and the run ends with an error.
UploadConfigReadAfterSave ==
    UploadConfigMissing
      => /\ ~Started("upload_to_s3")
         /\ failedAt /= "config"
         /\ (pc = "exited" => exitCode = 1 /\ exc /= NoExc)
         /\ ((pc = "upload_config" \/ failedAt = "upload_config")
               => /\ completed = <<"read_api", "transform_data", "save_to_csv">>
                  /\ disk = File(to_csv(df)))
         /\ ((pc = "exited" /\ Len(completed) = 3)
               => failedAt = "upload_config" /\ exc = KeyError)

\* the run ended on the missing upload key, with jobs.csv written
MissingUploadKeyFoundAfterSave ==
    /\ UploadConfigMissing
    /\ failedAt = "upload_config"
    /\ pc = "exited"
    /\ disk.exists /\ disk /= StaleFile

====
